---- MODULE Spec2Model ----
(***************************************************************************)
(* Model of the obligation elaborator of rustc_infer::traits::util:        *)
(* PredicateSet, Elaborator (elaborate, extend_deduped, the mode setters,  *)
(* Elaborator::elaborate, Iterator::next), FilterToTraits and the entry    *)
(* points supertraits / transitive_bounds /                                *)
(* transitive_bounds_that_define_assoc_item.                               *)
(***************************************************************************)
EXTENDS Naturals, Sequences, FiniteSets, TLC

(***************************************************************************)
(* Bounds of the model.                                                    *)
(***************************************************************************)
\* longest seed collection handed to an entry point
MaxSeeds == 2
\* longest declared-implication list of the trait under test
MaxDecl == 2
\* cap on the number of obligations drawn from one Elaborator
MaxYield == 12
\* most calls of insert on a PredicateSet used on its own
MaxInserts == 3

(***************************************************************************)
(* Generic arguments: regions and types, as trees [tag, name, args].       *)
(***************************************************************************)
Arg(tag, name, args) == [tag |-> tag, name |-> name, args |-> args]

NoArg == Arg("None", "", <<>>)

ReEarlyParam(name) == Arg("ReEarlyParam", name, <<>>)

ReBound(name) == Arg("ReBound", name, <<>>)

Param(name) == Arg("Param", name, <<>>)

Placeholder(name) == Arg("Placeholder", name, <<>>)

Infer(name) == Arg("Infer", name, <<>>)

Alias(name, args) == Arg("Alias", name, args)

Adt(name, args) == Arg("Adt", name, args)

SelfTy == Arg("Self", "Self", <<>>)

is_bound(r) == r.tag = "ReBound"

is_region(a) == a.tag \in {"ReEarlyParam", "ReBound"}

\* the names of the bound regions of a generic argument, in order of occurrence
RECURSIVE BoundNamesOfArgs(_)
BoundNamesOf(a) ==
    IF is_bound(a) THEN <<a.name>> ELSE BoundNamesOfArgs(a.args)

BoundNamesOfArgs(as) ==
    IF as = <<>> THEN <<>>
    ELSE BoundNamesOf(Head(as)) \o BoundNamesOfArgs(Tail(as))

has_escaping_bound_vars(a) == BoundNamesOf(a) # <<>>

\* the elements of a sequence
Range(s) == {s[i] : i \in DOMAIN s}

\* a sequence without the later occurrences of its elements
RECURSIVE Dedup(_)
Dedup(s) ==
    IF s = <<>> THEN <<>>
    ELSE LET front == Dedup(SubSeq(s, 1, Len(s) - 1))
             x == s[Len(s)]
         IN IF x \in Range(front) THEN front ELSE Append(front, x)

\* the position of the first occurrence of x in s
IndexOf(s, x) == CHOOSE i \in DOMAIN s : s[i] = x /\ \A j \in 1..(i - 1) : s[j] # x

(***************************************************************************)
(* Predicates: a binder (the names of its bound variables) around a kind.  *)
(***************************************************************************)
Pred(kind, bound_vars, def_id, polarity, ty, r, r_min) ==
    [kind |-> kind, bound_vars |-> bound_vars, def_id |-> def_id,
     polarity |-> polarity, ty |-> ty, r |-> r, r_min |-> r_min]

TraitPred(bound_vars, def_id, polarity, ty) ==
    Pred("Trait", bound_vars, def_id, polarity, ty, NoArg, NoArg)

TypeOutlives(bound_vars, ty, r_min) ==
    Pred("TypeOutlives", bound_vars, "", "", ty, NoArg, r_min)

RegionOutlives(bound_vars, r, r_min) ==
    Pred("RegionOutlives", bound_vars, "", "", NoArg, r, r_min)

\* the forms the elaborator never elaborates, each about one type
LeafPred(kind, ty) == Pred(kind, <<>>, "", "", ty, NoArg, NoArg)

ClauseKinds ==
    {"Trait", "TypeOutlives", "RegionOutlives", "WellFormed", "Projection",
     "ConstEvaluatable", "ConstArgHasType"}

\* Predicate::as_clause: Some(clause) for the clause kinds, None otherwise
as_clause(pred) == IF pred.kind \in ClauseKinds THEN <<pred>> ELSE <<>>

\* Predicate::as_trait_clause: the trait predicate of a positive trait bound
as_trait_clause(pred) ==
    IF pred.kind = "Trait" /\ pred.polarity = "Positive" THEN <<pred>> ELSE <<>>

\* PolyTraitRef: binder, trait and self type of a trait predicate
TraitRef(bound_vars, def_id, ty) ==
    [bound_vars |-> bound_vars, def_id |-> def_id, ty |-> ty]

trait_ref(data) == TraitRef(data.bound_vars, data.def_id, data.ty)

\* PolyTraitRef::upcast: the positive trait predicate of a trait reference
upcast(tr) == TraitPred(tr.bound_vars, tr.def_id, "Positive", tr.ty)

(***************************************************************************)
(* anonymize_bound_vars: the bound variables that occur are renamed by the *)
(* position of their first occurrence; the binder lists exactly those.     *)
(***************************************************************************)
AnonNames == <<"'0", "'1", "'2", "'3">>

RECURSIVE RenameArgs(_, _)
RenameArg(a, order) ==
    IF is_bound(a) THEN ReBound(AnonNames[IndexOf(order, a.name)])
    ELSE Arg(a.tag, a.name, RenameArgs(a.args, order))

RenameArgs(as, order) ==
    IF as = <<>> THEN <<>>
    ELSE <<RenameArg(Head(as), order)>> \o RenameArgs(Tail(as), order)

anonymize_bound_vars(pred) ==
    LET order == Dedup(BoundNamesOf(pred.ty) \o BoundNamesOf(pred.r)
                       \o BoundNamesOf(pred.r_min))
    IN Pred(pred.kind, [i \in DOMAIN order |-> AnonNames[i]], pred.def_id,
            pred.polarity, RenameArg(pred.ty, order), RenameArg(pred.r, order),
            RenameArg(pred.r_min, order))

anonymize_predicate(pred) == anonymize_bound_vars(pred)

(***************************************************************************)
(* PredicateSet                                                            *)
(***************************************************************************)
PredicateSet_new == {}

\* insert that stores and compares the predicate as given
PredicateSet_insert_raw(set, pred) ==
    [set |-> set \cup {pred}, ret |-> pred \notin set]

\* insert that reports whether the predicate was already present
PredicateSet_insert_inverted(set, pred) ==
    [set |-> set \cup {anonymize_predicate(pred)},
     ret |-> anonymize_predicate(pred) \in set]

\* the set after the call, and the value the call returns
PredicateSet_insert(set, pred) ==
    [set |-> set \cup {anonymize_predicate(pred)},
     ret |-> anonymize_predicate(pred) \notin set]

\* Extend::extend: insert every predicate of the iterator, results dropped
RECURSIVE PredicateSet_extend(_, _)
PredicateSet_extend(set, iter) ==
    IF iter = <<>> THEN set
    ELSE PredicateSet_extend(PredicateSet_insert(set, Head(iter)).set,
                             Tail(iter))

(***************************************************************************)
(* Obligations: a predicate and the payload of its representation.         *)
(***************************************************************************)
Reprs == {"Predicate", "PredicateSpan", "Obligation"}

NoSpan == 0

NoCause == [span |-> NoSpan, code |-> <<>>]

Obl(predicate, span, cause, param_env, recursion_depth) ==
    [predicate |-> predicate, span |-> span, cause |-> cause,
     param_env |-> param_env, recursion_depth |-> recursion_depth]

\* Elaboratable::predicate
predicate(o) == o.predicate

\* ObligationCause::derived_cause with the ImplDerived code of the elaborator
derived_cause(cause, parent_trait_pred, span, index) ==
    [span |-> cause.span,
     code |-> Append(cause.code,
                     [parent_trait_pred |-> parent_trait_pred,
                      impl_or_alias_def_id |-> parent_trait_pred.def_id,
                      impl_def_predicate_index |-> index,
                      span |-> span])]

\* child that keeps the recursion depth of the parent and takes no span
child_keeps_depth(repr, o, clause) ==
    CASE repr = "Obligation" ->
           Obl(clause, o.span, o.cause, o.param_env, o.recursion_depth)
      [] repr = "PredicateSpan" ->
           Obl(clause, NoSpan, o.cause, o.param_env, o.recursion_depth)
      [] OTHER ->
           Obl(clause, o.span, o.cause, o.param_env, o.recursion_depth)

\* Elaboratable::child
child(repr, o, clause) ==
    CASE repr = "Obligation" ->
           Obl(clause, o.span, o.cause, o.param_env, 0)
      [] repr = "PredicateSpan" ->
           Obl(clause, o.span, o.cause, o.param_env, o.recursion_depth)
      [] OTHER ->
           Obl(clause, o.span, o.cause, o.param_env, o.recursion_depth)

\* child_with_derived_cause that records the index counted from one
child_with_derived_cause_from_one(repr, o, clause, span, parent_trait_pred, index) ==
    CASE repr = "Obligation" ->
           Obl(clause, o.span,
               derived_cause(o.cause, parent_trait_pred, span, index + 1),
               o.param_env, 0)
      [] OTHER ->
           Obl(clause, o.span, o.cause, o.param_env, o.recursion_depth)

\* Elaboratable::child_with_derived_cause
child_with_derived_cause(repr, o, clause, span, parent_trait_pred, index) ==
    CASE repr = "Obligation" ->
           Obl(clause, o.span,
               derived_cause(o.cause, parent_trait_pred, span, index),
               o.param_env, 0)
      [] repr = "PredicateSpan" ->
           Obl(clause, o.span, o.cause, o.param_env, o.recursion_depth)
      [] OTHER ->
           Obl(clause, o.span, o.cause, o.param_env, o.recursion_depth)

(***************************************************************************)
(* The queries of tcx.  A trait's declaration is one ordered list of       *)
(* entries (clause, span); an entry is supertrait-style or not, and a      *)
(* supertrait-style entry names the associated items reachable through it. *)
(***************************************************************************)
Traits == {"A", "B", "C"}

Idents == {"Item"}

Entry(clause, span, super, items) ==
    [clause |-> clause, span |-> span, super |-> super, items |-> items]

ClauseSpan(e) == [clause |-> e.clause, span |-> e.span]

RECURSIVE MapClauseSpan(_)
MapClauseSpan(es) ==
    IF es = <<>> THEN <<>>
    ELSE <<ClauseSpan(Head(es))>> \o MapClauseSpan(Tail(es))

IsSuper(e) == e.super

explicit_implied_predicates_of(tcx, def_id) == MapClauseSpan(tcx[def_id])

explicit_super_predicates_of(tcx, def_id) ==
    MapClauseSpan(SelectSeq(tcx[def_id], IsSuper))

explicit_supertraits_containing_assoc_item(tcx, def_id, ident) ==
    LET Contains(e) == e.super /\ ident \in e.items
    IN MapClauseSpan(SelectSeq(tcx[def_id], Contains))

\* Clause::instantiate_supertrait: Self becomes the self type of the trait
\* reference, under the binder of the trait reference followed by the clause's
RECURSIVE SubstSelfArgs(_, _)
SubstSelf(a, self_ty) ==
    IF a.tag = "Self" THEN self_ty
    ELSE Arg(a.tag, a.name, SubstSelfArgs(a.args, self_ty))

SubstSelfArgs(as, self_ty) ==
    IF as = <<>> THEN <<>>
    ELSE <<SubstSelf(Head(as), self_ty)>> \o SubstSelfArgs(Tail(as), self_ty)

instantiate_supertrait(clause, tr) ==
    Pred(clause.kind, tr.bound_vars \o clause.bound_vars, clause.def_id,
         clause.polarity, SubstSelf(clause.ty, tr.ty), clause.r, clause.r_min)

(***************************************************************************)
(* push_outlives_components: the structural components of a type.          *)
(***************************************************************************)
Component(tag, val) == [tag |-> tag, val |-> val]

RECURSIVE compute_components(_)
push_outlives_components(ty) ==
    CASE ty.tag = "Param" -> <<Component("Param", ty)>>
      [] ty.tag = "Placeholder" -> <<Component("Placeholder", ty)>>
      [] ty.tag = "Infer" -> <<Component("UnresolvedInferenceVariable", ty)>>
      [] ty.tag = "Alias" ->
           IF has_escaping_bound_vars(ty)
           THEN <<Component("EscapingAlias", ty)>>
           ELSE <<Component("Alias", ty)>>
      [] is_region(ty) -> <<Component("Region", ty)>>
      [] OTHER -> compute_components(ty.args)

compute_components(as) ==
    IF as = <<>> THEN <<>>
    ELSE push_outlives_components(Head(as)) \o compute_components(Tail(as))

(***************************************************************************)
(* Elaborator                                                              *)
(***************************************************************************)
Filter_All == [filter |-> "All", ident |-> ""]

Filter_OnlySelf == [filter |-> "OnlySelf", ident |-> ""]

Filter_OnlySelfThatDefines(ident) ==
    [filter |-> "OnlySelfThatDefines", ident |-> ident]

Elaborator(stack, visited, mode) ==
    [stack |-> stack, visited |-> visited, mode |-> mode]

\* extend_deduped that tests the visited set without inserting into it
RECURSIVE extend_deduped_contains(_, _)
extend_deduped_contains(e, obligations) ==
    IF obligations = <<>> THEN e
    ELSE LET o == Head(obligations)
             new == anonymize_predicate(predicate(o)) \notin e.visited
         IN extend_deduped_contains(
                Elaborator(IF new THEN Append(e.stack, o) ELSE e.stack,
                           e.visited, e.mode),
                Tail(obligations))

\* extend_deduped that pushes without consulting the visited set
RECURSIVE extend_deduped_unfiltered(_, _)
extend_deduped_unfiltered(e, obligations) ==
    IF obligations = <<>> THEN e
    ELSE LET o == Head(obligations)
             ins == PredicateSet_insert(e.visited, predicate(o))
         IN extend_deduped_unfiltered(
                Elaborator(Append(e.stack, o), ins.set, e.mode),
                Tail(obligations))

\* extend_deduped that stops at the first obligation it pushes
RECURSIVE extend_deduped_first_only(_, _)
extend_deduped_first_only(e, obligations) ==
    IF obligations = <<>> THEN e
    ELSE LET o == Head(obligations)
             ins == PredicateSet_insert(e.visited, predicate(o))
         IN IF ins.ret
            THEN Elaborator(Append(e.stack, o), ins.set, e.mode)
            ELSE extend_deduped_first_only(
                     Elaborator(e.stack, ins.set, e.mode), Tail(obligations))

\* extend_deduped that takes the obligations from the last to the first
RECURSIVE extend_deduped_reversed(_, _)
extend_deduped_reversed(e, obligations) ==
    IF obligations = <<>> THEN e
    ELSE LET o == obligations[Len(obligations)]
             ins == PredicateSet_insert(e.visited, predicate(o))
         IN extend_deduped_reversed(
                Elaborator(IF ins.ret THEN Append(e.stack, o) ELSE e.stack,
                           ins.set, e.mode),
                SubSeq(obligations, 1, Len(obligations) - 1))

\* Elaborator::extend_deduped: push, in order, the obligations whose
\* predicate PredicateSet::insert reports as newly inserted
RECURSIVE extend_deduped(_, _)
extend_deduped(e, obligations) ==
    IF obligations = <<>> THEN e
    ELSE LET o == Head(obligations)
             ins == PredicateSet_insert(e.visited, predicate(o))
         IN extend_deduped(
                Elaborator(IF ins.ret THEN Append(e.stack, o) ELSE e.stack,
                           ins.set, e.mode),
                Tail(obligations))

\* Reverse of a sequence
Reverse(s) == [i \in DOMAIN s |-> s[Len(s) + 1 - i]]

\* elaborate that seeds the stack from the end of the collection
elaborate_reversed(obligations) ==
    extend_deduped(Elaborator(<<>>, PredicateSet_new, Filter_All),
                   Reverse(obligations))

\* elaborate(tcx, obligations)
elaborate(obligations) ==
    extend_deduped(Elaborator(<<>>, PredicateSet_new, Filter_All), obligations)

\* filter_only_self that starts over with an empty visited set
filter_only_self_fresh(e) == Elaborator(e.stack, PredicateSet_new, Filter_OnlySelf)

\* filter_only_self that forgets to set the mode
filter_only_self_noop(e) == Elaborator(e.stack, e.visited, e.mode)

\* Elaborator::filter_only_self
filter_only_self(e) == Elaborator(e.stack, e.visited, Filter_OnlySelf)

\* Elaborator::filter_only_self_that_defines
filter_only_self_that_defines(e, assoc_ty) ==
    Elaborator(e.stack, e.visited, Filter_OnlySelfThatDefines(assoc_ty))

\* the lookup that ignores the mode and always takes the implied predicates
predicates_of_implied(tcx, mode, def_id) ==
    explicit_implied_predicates_of(tcx, def_id)

\* the implied predicates the mode selects for a trait
predicates_of(tcx, mode, def_id) ==
    CASE mode.filter = "All" -> explicit_implied_predicates_of(tcx, def_id)
      [] mode.filter = "OnlySelf" -> explicit_super_predicates_of(tcx, def_id)
      [] mode.filter = "OnlySelfThatDefines" ->
           explicit_supertraits_containing_assoc_item(tcx, def_id, mode.ident)

\* the filter_map without the test for bound regions
RECURSIVE outlives_clauses_no_bound_check(_, _, _)
outlives_clauses_no_bound_check(components, r_min, bound_vars) ==
    IF components = <<>> THEN <<>>
    ELSE LET component == Head(components)
             rest == outlives_clauses_no_bound_check(Tail(components), r_min,
                                                     bound_vars)
         IN CASE component.tag = "Region" ->
                   <<RegionOutlives(bound_vars, component.val, r_min)>> \o rest
              [] component.tag \in {"Param", "Placeholder"} ->
                   <<TypeOutlives(bound_vars,
                                  Arg(component.tag, component.val.name, <<>>),
                                  r_min)>> \o rest
              [] component.tag = "Alias" ->
                   <<TypeOutlives(bound_vars, component.val, r_min)>> \o rest
              [] OTHER -> rest

\* the filter_map over the outlives components of ty_max, rebound under the
\* binder of the elaborated clause
RECURSIVE outlives_clauses(_, _, _)
outlives_clauses(components, r_min, bound_vars) ==
    IF components = <<>> THEN <<>>
    ELSE LET component == Head(components)
             rest == outlives_clauses(Tail(components), r_min, bound_vars)
         IN CASE component.tag = "Region" ->
                   IF is_bound(component.val) THEN rest
                   ELSE <<RegionOutlives(bound_vars, component.val, r_min)>>
                        \o rest
              [] component.tag = "Param" ->
                   <<TypeOutlives(bound_vars, Param(component.val.name), r_min)>>
                   \o rest
              [] component.tag = "Placeholder" ->
                   <<TypeOutlives(bound_vars, Placeholder(component.val.name),
                                  r_min)>> \o rest
              [] component.tag = "UnresolvedInferenceVariable" -> rest
              [] component.tag = "Alias" ->
                   <<TypeOutlives(bound_vars, component.val, r_min)>> \o rest
              [] component.tag = "EscapingAlias" -> rest

\* the query of tcx the mode selects for a trait
query_of(mode, def_id) ==
    CASE mode.filter = "All" ->
           [query |-> "explicit_implied_predicates_of", def_id |-> def_id,
            ident |-> ""]
      [] mode.filter = "OnlySelf" ->
           [query |-> "explicit_super_predicates_of", def_id |-> def_id,
            ident |-> ""]
      [] mode.filter = "OnlySelfThatDefines" ->
           [query |-> "explicit_supertraits_containing_assoc_item",
            def_id |-> def_id, ident |-> mode.ident]

\* the queries Elaborator::elaborate sends to tcx for one obligation
queries_of(e, elaboratable) ==
    LET clause == as_clause(predicate(elaboratable))
    IN IF /\ clause # <<>>
          /\ clause[1].kind = "Trait"
          /\ clause[1].polarity = "Positive"
       THEN {query_of(e.mode, clause[1].def_id)}
       ELSE {}

\* elaborate without the test of the polarity, without the test for a bound
\* r_min
Elaborator_elaborate_no_guards(tcx, repr, e, elaboratable) ==
    LET clause == as_clause(predicate(elaboratable))
    IN IF clause = <<>> THEN e
       ELSE LET data == clause[1]
            IN CASE data.kind = "Trait" ->
                      LET predicates == predicates_of(tcx, e.mode, data.def_id)
                      IN extend_deduped(
                             e,
                             [i \in DOMAIN predicates |->
                                 child_with_derived_cause(
                                     repr, elaboratable,
                                     instantiate_supertrait(
                                         predicates[i].clause, trait_ref(data)),
                                     predicates[i].span, data, i - 1)])
                 [] data.kind = "TypeOutlives" ->
                      LET clauses ==
                              outlives_clauses(
                                  push_outlives_components(data.ty),
                                  data.r_min, data.bound_vars)
                      IN extend_deduped(
                             e,
                             [i \in DOMAIN clauses |->
                                 child(repr, elaboratable, clauses[i])])
                 [] OTHER -> e

\* Elaborator::elaborate
Elaborator_elaborate(tcx, repr, e, elaboratable) ==
    LET clause == as_clause(predicate(elaboratable))
    IN IF clause = <<>> THEN e
       ELSE LET bound_clause == clause[1]
                data == bound_clause
            IN CASE bound_clause.kind = "Trait" ->
                      IF data.polarity # "Positive" THEN e
                      ELSE LET predicates ==
                                   predicates_of(tcx, e.mode, data.def_id)
                               obligations ==
                                   [i \in DOMAIN predicates |->
                                       child_with_derived_cause(
                                           repr, elaboratable,
                                           instantiate_supertrait(
                                               predicates[i].clause,
                                               trait_ref(data)),
                                           predicates[i].span, data, i - 1)]
                           IN extend_deduped(e, obligations)
                 [] bound_clause.kind = "TypeOutlives" ->
                      IF is_bound(bound_clause.r_min) THEN e
                      ELSE LET components ==
                                   push_outlives_components(bound_clause.ty)
                               clauses ==
                                   outlives_clauses(components,
                                                    bound_clause.r_min,
                                                    bound_clause.bound_vars)
                           IN extend_deduped(
                                  e,
                                  [i \in DOMAIN clauses |->
                                      child(repr, elaboratable, clauses[i])])
                 [] OTHER -> e

\* next that takes the key of the obligation it returns out of the visited set
Elaborator_next_forgets(tcx, repr, e) ==
    IF e.stack # <<>>
    THEN LET obligation == e.stack[Len(e.stack)]
             popped == Elaborator(
                           SubSeq(e.stack, 1, Len(e.stack) - 1),
                           e.visited \ {anonymize_predicate(predicate(obligation))},
                           e.mode)
         IN [e |-> Elaborator_elaborate(tcx, repr, popped, obligation),
             ret |-> <<obligation>>]
    ELSE [e |-> e, ret |-> <<>>]

\* next that also elaborates the obligation it leaves on top of the stack
Elaborator_next_eager(tcx, repr, e) ==
    IF e.stack # <<>>
    THEN LET obligation == e.stack[Len(e.stack)]
             popped == Elaborator(SubSeq(e.stack, 1, Len(e.stack) - 1),
                                  e.visited, e.mode)
             after == Elaborator_elaborate(tcx, repr, popped, obligation)
         IN [e |-> IF after.stack = <<>> THEN after
                   ELSE Elaborator_elaborate(tcx, repr, after,
                                             after.stack[Len(after.stack)]),
             ret |-> <<obligation>>]
    ELSE [e |-> e, ret |-> <<>>]

\* next that reports exhaustion with one obligation still pending
Elaborator_next_early_none(tcx, repr, e) ==
    IF Len(e.stack) > 1
    THEN LET obligation == e.stack[Len(e.stack)]
             popped == Elaborator(SubSeq(e.stack, 1, Len(e.stack) - 1),
                                  e.visited, e.mode)
         IN [e |-> Elaborator_elaborate(tcx, repr, popped, obligation),
             ret |-> <<obligation>>]
    ELSE [e |-> e, ret |-> <<>>]

\* next that takes the oldest pending obligation instead of the newest
Elaborator_next_fifo(tcx, repr, e) ==
    IF e.stack # <<>>
    THEN LET obligation == e.stack[1]
             popped == Elaborator(Tail(e.stack), e.visited, e.mode)
         IN [e |-> Elaborator_elaborate(tcx, repr, popped, obligation),
             ret |-> <<obligation>>]
    ELSE [e |-> e, ret |-> <<>>]

\* Iterator::next of the Elaborator: the elaborator after the call and the
\* returned option (<<>> is None, <<o>> is Some(o))
Elaborator_next(tcx, repr, e) ==
    IF e.stack # <<>>
    THEN LET obligation == e.stack[Len(e.stack)]
             popped == Elaborator(SubSeq(e.stack, 1, Len(e.stack) - 1),
                                  e.visited, e.mode)
         IN [e |-> Elaborator_elaborate(tcx, repr, popped, obligation),
             ret |-> <<obligation>>]
    ELSE [e |-> e, ret |-> <<>>]

\* size_hint that counts every obligation ever scheduled
Elaborator_size_hint_visited(e) == Cardinality(e.visited)

\* Elaborator::size_hint
Elaborator_size_hint(e) == Len(e.stack)

\* next of FilterToTraits that gives up at the first predicate it discards
FilterToTraits_next_no_loop(tcx, repr, base_iterator, pulled) ==
    LET n == Elaborator_next(tcx, repr, base_iterator)
    IN IF n.ret = <<>>
       THEN [e |-> n.e, pulled |-> pulled, ret |-> <<>>]
       ELSE LET data == as_trait_clause(predicate(n.ret[1]))
            IN [e |-> n.e, pulled |-> Append(pulled, n.ret[1]),
                ret |-> IF data # <<>> THEN <<trait_ref(data[1])>> ELSE <<>>]

\* Iterator::next of FilterToTraits: the base iterator after the call, the
\* predicates pulled from it, and the returned option
RECURSIVE FilterToTraits_next(_, _, _, _)
FilterToTraits_next(tcx, repr, base_iterator, pulled) ==
    LET n == Elaborator_next(tcx, repr, base_iterator)
    IN IF n.ret = <<>>
       THEN [e |-> n.e, pulled |-> pulled, ret |-> <<>>]
       ELSE LET pred == predicate(n.ret[1])
                data == as_trait_clause(pred)
            IN IF data # <<>>
               THEN [e |-> n.e, pulled |-> Append(pulled, n.ret[1]),
                     ret |-> <<trait_ref(data[1])>>]
               ELSE FilterToTraits_next(tcx, repr, n.e,
                                        Append(pulled, n.ret[1]))

(***************************************************************************)
(* The inputs: declarations, seed predicates, seed collections.            *)
(***************************************************************************)
T == Param("T")

U == Param("U")

RefB == Adt("Ref", <<ReBound("b"), T>>)

RefC == Adt("Ref", <<ReBound("c"), T>>)

VecU == Adt("Vec", <<U>>)

FooAB == Adt("Foo", <<ReEarlyParam("a"), ReBound("b")>>)

Mix ==
    Adt("Mix", <<Placeholder("P0"), Infer("_0"), Alias("Assoc", <<T>>),
                 Alias("Assoc", <<ReBound("b")>>)>>)

Super(def_id, span, items) ==
    Entry(TraitPred(<<>>, def_id, "Positive", SelfTy), span, TRUE, items)

\* the entries the trait under test, A, may declare
EntriesA ==
    {Super("B", 12, {"Item"}),
     Super("C", 13, {}),
     Entry(TraitPred(<<>>, "C", "Positive", U), 14, FALSE, {}),
     Entry(TypeOutlives(<<>>, SelfTy, ReEarlyParam("a")), 15, TRUE, {})}

\* B: C + A (a cycle through A), C: C (its own supertrait)
DeclB == <<Super("C", 21, {"Item"}), Super("A", 22, {})>>

DeclC == <<Super("C", 31, {})>>

SeqsUpTo(S, n) == UNION {[1..k -> S] : k \in 0..n}

Tcxs ==
    {[t \in Traits |-> CASE t = "A" -> declA [] t = "B" -> DeclB
                         [] t = "C" -> DeclC] :
        declA \in SeqsUpTo(EntriesA, MaxDecl)}

\* the trait references the entry points over trait references are given
SeedTraitRefs ==
    {TraitRef(<<>>, "A", T), TraitRef(<<"b">>, "A", RefB),
     TraitRef(<<"c">>, "A", RefC), TraitRef(<<"c">>, "B", RefC)}

SeedPreds ==
    {upcast(tr) : tr \in SeedTraitRefs}
    \cup {TraitPred(<<>>, "A", "Negative", T),
          TypeOutlives(<<>>, VecU, ReEarlyParam("a")),
          TypeOutlives(<<"b">>, FooAB, ReEarlyParam("c")),
          TypeOutlives(<<"b">>, Mix, ReEarlyParam("a")),
          TypeOutlives(<<"b">>, T, ReBound("b")),
          LeafPred("WellFormed", T),
          LeafPred("Subtype", T)}

\* the i-th seed of a collection, in the representation repr
SeedObl(repr, pred, i) ==
    CASE repr = "Obligation" -> Obl(pred, NoSpan, [span |-> i, code |-> <<>>], i, i)
      [] repr = "PredicateSpan" -> Obl(pred, i, NoCause, 0, 0)
      [] OTHER -> Obl(pred, NoSpan, NoCause, 0, 0)

SeedObls(repr, preds) == [i \in DOMAIN preds |-> SeedObl(repr, preds[i], i)]

(***************************************************************************)
(* The state machine.                                                      *)
(***************************************************************************)
VARIABLES
    tcx,        \* the declarations the queries answer from
    repr,       \* the representation O of the obligations
    entry,      \* the entry point that built the iterator
    seeds,      \* the obligations handed to the entry point
    stack,      \* Elaborator.stack
    visited,    \* Elaborator.visited.set
    mode,       \* Elaborator.mode
    yielded,    \* the obligations Elaborator::next has returned, in order
    ret,        \* what the last call of next returned
    queries,    \* the queries Elaborator::elaborate has sent to tcx
    out,        \* the trait references FilterToTraits::next has returned
    inserts     \* the calls of insert on a PredicateSet of its own, with results

vars ==
    <<tcx, repr, entry, seeds, stack, visited, mode, yielded, ret, queries, out,
      inserts>>

this == Elaborator(stack, visited, mode)

NotCalled == <<"not called">>

\* elaborate(tcx, obligations), alone or followed by one of the mode setters
InitElaborate(reprs) ==
    /\ entry = "elaborate"
    /\ repr \in reprs
    /\ \E preds \in SeqsUpTo(SeedPreds, MaxSeeds) : seeds = SeedObls(repr, preds)
    /\ \E e \in {elaborate(seeds), filter_only_self(elaborate(seeds))}
               \cup {filter_only_self_that_defines(elaborate(seeds), assoc_ty) :
                        assoc_ty \in Idents} :
           stack = e.stack /\ visited = e.visited /\ mode = e.mode

\* supertraits(tcx, trait_ref)
InitSupertraits ==
    /\ entry = "supertraits"
    /\ repr = "Predicate"
    /\ \E tr \in SeedTraitRefs : seeds = SeedObls(repr, <<upcast(tr)>>)
    /\ LET e == filter_only_self(elaborate(seeds))
       IN stack = e.stack /\ visited = e.visited /\ mode = e.mode

\* transitive_bounds(tcx, trait_refs)
InitTransitiveBounds ==
    /\ entry = "transitive_bounds"
    /\ repr = "Predicate"
    /\ \E trs \in SeqsUpTo(SeedTraitRefs, MaxSeeds) :
           seeds = SeedObls(repr, [i \in DOMAIN trs |-> upcast(trs[i])])
    /\ LET e == filter_only_self(elaborate(seeds))
       IN stack = e.stack /\ visited = e.visited /\ mode = e.mode

\* transitive_bounds_that_define_assoc_item(tcx, trait_refs, assoc_name)
InitTransitiveBoundsThatDefine ==
    /\ entry = "transitive_bounds_that_define_assoc_item"
    /\ repr = "Predicate"
    /\ \E trs \in SeqsUpTo(SeedTraitRefs, MaxSeeds), assoc_name \in Idents :
           /\ seeds = SeedObls(repr, [i \in DOMAIN trs |-> upcast(trs[i])])
           /\ LET e == filter_only_self_that_defines(elaborate(seeds),
                                                     assoc_name)
              IN stack = e.stack /\ visited = e.visited /\ mode = e.mode

Init ==
    /\ tcx \in Tcxs
    /\ \/ InitElaborate({"PredicateSpan"})
       \/ InitSupertraits
       \/ InitTransitiveBounds
       \/ InitTransitiveBoundsThatDefine
    /\ yielded = <<>>
    /\ ret = NotCalled
    /\ queries = {}
    /\ out = <<>>
    /\ inserts = <<>>

\* the three entry points over trait references hand out a FilterToTraits
Wrapped == entry # "elaborate"

\* Elaborator::next, called by the owner of the Elaborator
Next_Elaborator ==
    /\ ~Wrapped
    /\ Len(yielded) < MaxYield
    /\ LET n == Elaborator_next(tcx, repr, this)
       IN /\ stack' = n.e.stack
          /\ visited' = n.e.visited
          /\ mode' = n.e.mode
          /\ yielded' = yielded \o n.ret
          /\ ret' = n.ret
          /\ queries' = queries \cup UNION {queries_of(this, n.ret[i]) :
                                               i \in DOMAIN n.ret}
    /\ UNCHANGED <<tcx, repr, entry, seeds, out, inserts>>

\* Elaborator::filter_only_self, called by the owner of the Elaborator
Call_filter_only_self ==
    /\ ~Wrapped
    /\ LET e == filter_only_self(this)
       IN stack' = e.stack /\ visited' = e.visited /\ mode' = e.mode
    /\ UNCHANGED <<tcx, repr, entry, seeds, yielded, ret, queries, out, inserts>>

\* Elaborator::filter_only_self_that_defines, called by the owner
Call_filter_only_self_that_defines ==
    /\ ~Wrapped
    /\ \E assoc_ty \in Idents :
           LET e == filter_only_self_that_defines(this, assoc_ty)
           IN stack' = e.stack /\ visited' = e.visited /\ mode' = e.mode
    /\ UNCHANGED <<tcx, repr, entry, seeds, yielded, ret, queries, out, inserts>>

\* FilterToTraits::next
Next_FilterToTraits ==
    /\ Wrapped
    /\ Len(yielded) < MaxYield
    /\ LET n == FilterToTraits_next(tcx, repr, this, <<>>)
       IN /\ stack' = n.e.stack
          /\ visited' = n.e.visited
          /\ mode' = n.e.mode
          /\ yielded' = yielded \o n.pulled
          /\ ret' = n.ret
          /\ queries' = queries \cup UNION {queries_of(this, n.pulled[i]) :
                                               i \in DOMAIN n.pulled}
          /\ out' = out \o n.ret
    /\ UNCHANGED <<tcx, repr, entry, seeds, inserts>>

\* the mode is set while the iterator is built, then the iterator is drained
Next ==
    \/ Next_Elaborator
    \/ Next_FilterToTraits

Spec == Init /\ [][Next]_vars

\* the owner of an Elaborator may also call the mode setters between calls
NextModeCalls ==
    \/ Next_Elaborator
    \/ Next_FilterToTraits
    \/ Call_filter_only_self
    \/ Call_filter_only_self_that_defines

SpecModeCalls == Init /\ [][NextModeCalls]_vars

(***************************************************************************)
(* An Elaborator over seeds of every leaf form, with two seeds that do     *)
(* derive obligations among them.                                          *)
(***************************************************************************)
LeafSeedPreds ==
    {LeafPred("Subtype", T),
     TraitPred(<<>>, "A", "Negative", T),
     TraitPred(<<"b">>, "B", "Negative", RefB),
     TypeOutlives(<<"b">>, VecU, ReBound("b")),
     RegionOutlives(<<>>, ReEarlyParam("a"), ReEarlyParam("c")),
     LeafPred("WellFormed", VecU),
     LeafPred("Projection", Alias("Assoc", <<T>>)),
     LeafPred("ConstEvaluatable", T),
     LeafPred("ConstArgHasType", U),
     TraitPred(<<>>, "B", "Positive", T),
     TypeOutlives(<<>>, VecU, ReEarlyParam("a"))}

InitLeaf ==
    /\ tcx \in Tcxs
    /\ entry = "elaborate"
    /\ repr \in {"Predicate", "PredicateSpan"}
    /\ \E preds \in SeqsUpTo(LeafSeedPreds, MaxSeeds) :
           seeds = SeedObls(repr, preds)
    /\ \E e \in {elaborate(seeds), filter_only_self(elaborate(seeds))} :
           stack = e.stack /\ visited = e.visited /\ mode = e.mode
    /\ yielded = <<>>
    /\ ret = NotCalled
    /\ queries = {}
    /\ out = <<>>
    /\ inserts = <<>>

NextLeaf == Next_Elaborator

SpecLeaf == InitLeaf /\ [][NextLeaf]_vars

(***************************************************************************)
(* An Elaborator over full obligations or over (predicate, span) pairs,    *)
(* every seed with a payload of its own.                                   *)
(***************************************************************************)
InitRepr ==
    /\ tcx \in Tcxs
    /\ InitElaborate({"PredicateSpan", "Obligation"})
    /\ yielded = <<>>
    /\ ret = NotCalled
    /\ queries = {}
    /\ out = <<>>
    /\ inserts = <<>>

NextRepr == Next_Elaborator

SpecRepr == InitRepr /\ [][NextRepr]_vars

(***************************************************************************)
(* A PredicateSet used on its own: PredicateSet::new, then insert and      *)
(* extend with any predicates.                                             *)
(***************************************************************************)
InitSet ==
    /\ tcx = [t \in Traits |-> <<>>]
    /\ repr = "Predicate"
    /\ entry = "PredicateSet::new"
    /\ seeds = <<>>
    /\ stack = <<>>
    /\ visited = PredicateSet_new
    /\ mode = Filter_All
    /\ yielded = <<>>
    /\ ret = NotCalled
    /\ queries = {}
    /\ out = <<>>
    /\ inserts = <<>>

\* the record of one call of insert: its argument, its result, the set after
InsertCall(set, pred) ==
    LET ins == PredicateSet_insert(set, pred)
    IN [pred |-> pred, ret |-> ins.ret, set |-> ins.set]

\* the calls of insert that Extend::extend makes on a set
RECURSIVE ExtendCalls(_, _)
ExtendCalls(set, iter) ==
    IF iter = <<>> THEN <<>>
    ELSE <<InsertCall(set, Head(iter))>>
         \o ExtendCalls(InsertCall(set, Head(iter)).set, Tail(iter))

\* PredicateSet::insert
Call_insert ==
    /\ Len(inserts) < MaxInserts
    /\ \E pred \in SeedPreds :
           /\ visited' = PredicateSet_insert(visited, pred).set
           /\ inserts' = Append(inserts, InsertCall(visited, pred))
    /\ UNCHANGED <<tcx, repr, entry, seeds, stack, mode, yielded, ret, queries,
                   out>>

\* Extend::extend (extend_one is the case of one predicate)
Call_extend ==
    /\ \E iter \in SeqsUpTo(SeedPreds, 2) :
           /\ Len(inserts) + Len(iter) <= MaxInserts
           /\ visited' = PredicateSet_extend(visited, iter)
           /\ inserts' = inserts \o ExtendCalls(visited, iter)
    /\ UNCHANGED <<tcx, repr, entry, seeds, stack, mode, yielded, ret, queries,
                   out>>

NextSet ==
    \/ Call_insert
    \/ Call_extend

SpecSet == InitSet /\ [][NextSet]_vars

(***************************************************************************)
(* Vocabulary of the properties.                                           *)
(***************************************************************************)
key(o) == anonymize_predicate(predicate(o))

Keys(s) == {key(s[i]) : i \in DOMAIN s}

\* next has reported exhaustion
Exhausted == ret = <<>>

IsPositiveTrait(p) == p.kind = "Trait" /\ p.polarity = "Positive"

(***************************************************************************)
(* The immediate-implication rule and its closure, stated on predicates    *)
(* without reference to the worklist.                                      *)
(***************************************************************************)
\* the entries of a declaration that a mode selects
ModeSelects(m, en) ==
    \/ m.filter = "All"
    \/ m.filter = "OnlySelf" /\ en.super
    \/ m.filter = "OnlySelfThatDefines" /\ en.super /\ m.ident \in en.items

\* the regions and the atomic types a type is built from
RECURSIVE AtomsOfArgs(_)
AtomsOf(a) ==
    IF a.tag = "Adt" THEN AtomsOfArgs(a.args) ELSE {a}

AtomsOfArgs(as) ==
    IF as = <<>> THEN {} ELSE AtomsOf(Head(as)) \cup AtomsOfArgs(Tail(as))

\* what T: r_min implies, component by component
OutlivesImplied(p) ==
    {RegionOutlives(p.bound_vars, a, p.r_min) :
        a \in {x \in AtomsOf(p.ty) : x.tag = "ReEarlyParam"}}
    \cup
    {TypeOutlives(p.bound_vars, a, p.r_min) :
        a \in {x \in AtomsOf(p.ty) :
                  \/ x.tag \in {"Param", "Placeholder"}
                  \/ x.tag = "Alias" /\ BoundNamesOf(x) = <<>>}}

ImmediateImplications(m, p) ==
    CASE IsPositiveTrait(p) ->
           {instantiate_supertrait(en.clause, trait_ref(p)) :
               en \in {x \in Range(tcx[p.def_id]) : ModeSelects(m, x)}}
      [] p.kind = "TypeOutlives" /\ ~is_bound(p.r_min) -> OutlivesImplied(p)
      [] OTHER -> {}

\* the least set of keys that contains K and is closed under the rule
RECURSIVE Closure(_, _)
Closure(m, K) ==
    LET K2 == K \cup UNION {{anonymize_predicate(c) :
                                c \in ImmediateImplications(m, k)} : k \in K}
    IN IF K2 = K THEN K ELSE Closure(m, K2)

\* every key any run from these seeds can derive
ClosureKeys == Closure(Filter_All, Keys(seeds))

\* C1: the sequence of yielded obligations is finite, whatever the seeds and
\* the declarations (also with the trait C, its own supertrait): every key
\* ever seen is one of the finitely many derivable keys, and the obligations
\* yielded so far and still pending never outnumber the keys seen.  Each
\* call of next on a non-empty stack yields one obligation, so after at most
\* Cardinality(ClosureKeys) calls the stack is empty and next returns None.
C1_Terminates ==
    /\ visited \subseteq ClosureKeys
    /\ Len(yielded) + Len(stack) <= Cardinality(visited)
    /\ Len(yielded) < MaxYield

\* an exhausted run that asked for the supertraits of C, declared `C: C`
C1_Witness ==
    /\ Exhausted
    /\ stack = <<>>
    /\ \E j \in DOMAIN tcx["C"] : tcx["C"][j].clause.def_id = "C"
    /\ \E q \in queries :
           /\ q.def_id = "C"
           /\ q.query \in {"explicit_implied_predicates_of",
                            "explicit_super_predicates_of"}

\* the keys already among the first n calls of insert
InsertedKeys(n) == {anonymize_predicate(inserts[j].pred) : j \in 1..n}

\* C3: insert returns true exactly when the canonical key of its argument was
\* not in the set before the call, and then adds that key; when it returns
\* false the set is left as it was.  So the first insert of a key returns
\* true and every later insert of that key returns false.
C3_InsertNewlyInserted ==
    /\ visited = InsertedKeys(Len(inserts))
    /\ \A i \in DOMAIN inserts :
           LET k == anonymize_predicate(inserts[i].pred)
               before == InsertedKeys(i - 1)
           IN /\ inserts[i].ret = (k \notin before)
              /\ inserts[i].set = before \cup {k}
              /\ ~inserts[i].ret => inserts[i].set = before
              /\ \A j \in DOMAIN inserts :
                     (i < j /\ anonymize_predicate(inserts[j].pred) = k)
                         => ~inserts[j].ret

\* two alpha-equivalent but different predicates inserted in a row: true,
\* then false
C3_Witness ==
    \E i \in DOMAIN inserts :
        /\ i + 1 \in DOMAIN inserts
        /\ inserts[i].pred # inserts[i + 1].pred
        /\ anonymize_predicate(inserts[i].pred)
               = anonymize_predicate(inserts[i + 1].pred)
        /\ inserts[i].ret
        /\ ~inserts[i + 1].ret
        /\ inserts[i + 1].set = inserts[i].set

\* C2: no two obligations yielded by one Elaborator have the same canonical
\* key, so of two alpha-equivalent seeds one is yielded, and an implication
\* alpha-equivalent to a seed or to an earlier implication is not yielded.
C2_NoDuplicateKeys ==
    \A i, j \in DOMAIN yielded : i # j => key(yielded[i]) # key(yielded[j])

\* an exhausted run from two alpha-equivalent seeds with differently named
\* bound variables, in which an implication of the seed was derived as well
C2_Witness ==
    /\ Exhausted
    /\ Len(seeds) = 2
    /\ seeds[1].predicate # seeds[2].predicate
    /\ key(seeds[1]) = key(seeds[2])
    /\ Len(yielded) >= 2
    /\ yielded[1] = seeds[1]

\* the keys of the immediate implications of a predicate under a mode
ImpliedKeys(m, p) == {anonymize_predicate(c) : c \in ImmediateImplications(m, p)}

\* a single seed on trait A, which declares one supertrait-style and one
\* other implication
OneSuperOneOther ==
    /\ Len(seeds) = 1
    /\ IsPositiveTrait(seeds[1].predicate)
    /\ seeds[1].predicate.def_id = "A"
    /\ Len(tcx["A"]) = 2
    /\ \E i \in 1..2 : tcx["A"][i].super /\ ~tcx["A"][3 - i].super

\* the key of the implication of the seed by the supertrait-style entry
\* (super = TRUE) or by the other entry (super = FALSE) of trait A
SeedImplicationKey(super) ==
    LET en == CHOOSE x \in Range(tcx["A"]) : x.super = super
    IN anonymize_predicate(
           instantiate_supertrait(en.clause, trait_ref(seeds[1].predicate)))

\* C4: the implications considered for a positive trait bound are exactly
\* those of the list the mode selects: every entry of that list has been
\* passed through the visited set, the only query sent is the one of the
\* mode, and no key is in the visited set but the seeds' and those implied
\* under the mode.  With one supertrait-style and one other implication,
\* OnlySelf yields only the supertrait-style one and All yields both.
C4_ModeSelectsList ==
    /\ \A i \in DOMAIN yielded :
           IsPositiveTrait(yielded[i].predicate) =>
               /\ ImpliedKeys(mode, yielded[i].predicate) \subseteq visited
               /\ query_of(mode, yielded[i].predicate.def_id) \in queries
    /\ queries \subseteq {query_of(mode, d) : d \in Traits}
    /\ \A k \in visited :
           \/ k \in Keys(seeds)
           \/ \E i \in DOMAIN yielded : k \in ImpliedKeys(mode, yielded[i].predicate)
    /\ (Exhausted /\ OneSuperOneOther) =>
           /\ mode = Filter_OnlySelf =>
                  /\ SeedImplicationKey(TRUE) \in Keys(yielded)
                  /\ SeedImplicationKey(FALSE) \notin Keys(yielded)
           /\ mode = Filter_All =>
                  /\ SeedImplicationKey(TRUE) \in Keys(yielded)
                  /\ SeedImplicationKey(FALSE) \in Keys(yielded)

\* OnlySelf on a trait with one supertrait-style and one other implication:
\* the run is over and only the supertrait-style implication was yielded
C4_Witness ==
    /\ Exhausted
    /\ OneSuperOneOther
    /\ mode = Filter_OnlySelf
    /\ SeedImplicationKey(TRUE) \in Keys(yielded)
    /\ SeedImplicationKey(FALSE) \notin Keys(yielded)

\* C5: run to exhaustion in one mode, the keys of the yielded obligations
\* are the least set that contains the keys of the seeds and is closed under
\* the immediate-implication rule of that mode.
C5_YieldsClosure ==
    Exhausted => Keys(yielded) = Closure(mode, Keys(seeds))

\* an exhausted run that yielded an implication of an implication of a seed
C5_Witness ==
    /\ Exhausted
    /\ Len(seeds) = 1
    /\ \E i, j \in DOMAIN yielded :
           /\ key(yielded[i]) \in ImpliedKeys(mode, seeds[1].predicate)
           /\ key(yielded[j]) \in ImpliedKeys(mode, yielded[i].predicate)
           /\ key(yielded[j]) \notin ImpliedKeys(mode, seeds[1].predicate)
           /\ key(yielded[j]) # key(seeds[1])

(***************************************************************************)
(* C6: two distinct seeds [A, B], elaborating B yields one implication B1. *)
(***************************************************************************)
\* the keys elaborating the second seed pushes right after construction
NewOfB == ImpliedKeys(mode, seeds[2].predicate) \ Keys(seeds)

TwoSeedsOneChild ==
    /\ entry = "elaborate"
    /\ Len(seeds) = 2
    /\ key(seeds[1]) # key(seeds[2])
    /\ Cardinality(NewOfB) = 1

\* C6 as the spec states it: the output begins A, B, B1.
C6_BeginsABB1 ==
    (TwoSeedsOneChild /\ Len(yielded) >= 3) =>
        /\ key(yielded[1]) = key(seeds[1])
        /\ key(yielded[2]) = key(seeds[2])
        /\ key(yielded[3]) \in NewOfB

\* C6 as amended: the output begins B, B1; A is yielded later, after B1 and
\* the obligations derived from B1, and is yielded before exhaustion.
C6_BeginsBB1 ==
    TwoSeedsOneChild =>
        /\ Len(yielded) >= 1 => yielded[1] = seeds[2]
        /\ Len(yielded) >= 2 => key(yielded[2]) \in NewOfB
        /\ \A i \in DOMAIN yielded :
               key(yielded[i]) = key(seeds[1]) =>
                   /\ i >= 3
                   /\ yielded[i] = seeds[1]
                   /\ \A j \in 2..(i - 1) :
                          key(yielded[j]) \in Closure(mode, NewOfB)
        /\ Exhausted => key(seeds[1]) \in Keys(yielded)

\* an exhausted run of the case, B1 with a descendant of its own before A
C6_Witness ==
    /\ TwoSeedsOneChild
    /\ Exhausted
    /\ \E i \in DOMAIN yielded : i >= 4 /\ yielded[i] = seeds[1]

(***************************************************************************)
(* C7: later seeds are drained depth-first before earlier seeds.           *)
(***************************************************************************)
\* the seeds that pass the visited set at construction, in input order
RECURSIVE DistinctSeeds(_)
DistinctSeeds(s) ==
    IF s = <<>> THEN <<>>
    ELSE LET front == DistinctSeeds(SubSeq(s, 1, Len(s) - 1))
             x == s[Len(s)]
         IN IF key(x) \in Keys(front) THEN front ELSE Append(front, x)

\* the least set of keys that contains K and is closed under the rule of the
\* mode, never entering the keys of X
RECURSIVE ClosureAvoiding(_, _, _)
ClosureAvoiding(m, K, X) ==
    LET K2 == K \cup (UNION {ImpliedKeys(m, k) : k \in K} \ X)
    IN IF K2 = K THEN K ELSE ClosureAvoiding(m, K2, X)

\* what draining the seeds after the k-th yields while the first k are pending
DrainOfLater(k) ==
    LET ds == DistinctSeeds(seeds)
    IN ClosureAvoiding(mode, {key(ds[m]) : m \in (k + 1)..Len(ds)},
                       {key(ds[m]) : m \in 1..k})

\* C7: when a seed is yielded, what was yielded before it is exactly the
\* later seeds and everything newly derived, transitively, from them; until
\* then the seed and the seeds before it stay at the bottom of the stack.
C7_LaterSeedsDrainFirst ==
    LET ds == DistinctSeeds(seeds)
    IN \A k \in DOMAIN ds :
          /\ \A i \in DOMAIN yielded :
                 key(yielded[i]) = key(ds[k]) =>
                     /\ yielded[i] = ds[k]
                     /\ Keys(SubSeq(yielded, 1, i - 1)) = DrainOfLater(k)
          /\ key(ds[k]) \notin Keys(yielded) =>
                 /\ Len(stack) >= k
                 /\ SubSeq(stack, 1, k) = SubSeq(ds, 1, k)
                 /\ Keys(yielded) \subseteq DrainOfLater(k)

\* two distinct seeds, each with an obligation derived from it yielded, the
\* earlier seed after all that the later seed derived
C7_Witness ==
    /\ Exhausted
    /\ Len(seeds) = 2
    /\ key(seeds[1]) # key(seeds[2])
    /\ \E i, j \in DOMAIN yielded :
           /\ 2 < i /\ i < j
           /\ yielded[1] = seeds[2]
           /\ yielded[i] = seeds[1]
           /\ key(yielded[2]) \in ImpliedKeys(mode, seeds[2].predicate)
           /\ key(yielded[j]) \in ImpliedKeys(mode, seeds[1].predicate)

(***************************************************************************)
(* C8: a single seed whose trait declares several implications.            *)
(***************************************************************************)
\* the keys of the implications the trait of the seed declares and the mode
\* selects, in declared order, first occurrences only, the seed's own left out
DeclaredKeys ==
    LET p == seeds[1].predicate
        Selected(en) == ModeSelects(mode, en)
        decl == SelectSeq(tcx[p.def_id], Selected)
        keys == [i \in DOMAIN decl |->
                    anonymize_predicate(
                        instantiate_supertrait(decl[i].clause, trait_ref(p)))]
        NotSeed(k) == k # key(seeds[1])
    IN SelectSeq(Dedup(keys), NotSeed)

\* the immediate implications of the seed among the yielded, in yield order
YieldedDeclared ==
    LET ks == [i \in DOMAIN yielded |-> key(yielded[i])]
        IsDeclared(k) == k \in Range(DeclaredKeys)
    IN SelectSeq(ks, IsDeclared)

SingleSeedSeveral ==
    /\ Len(seeds) = 1
    /\ IsPositiveTrait(seeds[1].predicate)
    /\ Len(DeclaredKeys) >= 2

\* C8 as the spec states it: the seed first, then its immediate implications
\* in the order in which the trait declares them.
C8_DeclaredOrder ==
    (SingleSeedSeveral /\ Exhausted) =>
        /\ yielded[1] = seeds[1]
        /\ YieldedDeclared = DeclaredKeys

\* C8 as amended: the seed first, then its immediate implications in the
\* reverse of the order in which the trait declares them, the last declared
\* right after the seed.
C8_ReverseDeclaredOrder ==
    SingleSeedSeveral =>
        /\ Len(yielded) >= 1 => yielded[1] = seeds[1]
        /\ Len(yielded) >= 2 =>
               key(yielded[2]) = DeclaredKeys[Len(DeclaredKeys)]
        /\ Len(YieldedDeclared) <= Len(DeclaredKeys)
        /\ YieldedDeclared =
               SubSeq(Reverse(DeclaredKeys), 1, Len(YieldedDeclared))
        /\ Exhausted => YieldedDeclared = Reverse(DeclaredKeys)

\* an exhausted run of the case in which an obligation derived from the last
\* declared implication comes between the two declared ones
C8_Witness ==
    /\ SingleSeedSeveral
    /\ Exhausted
    /\ Len(yielded) >= 4
    /\ key(yielded[2]) = DeclaredKeys[2]
    /\ key(yielded[3]) \notin Range(DeclaredKeys)
    /\ key(yielded[4]) = DeclaredKeys[1]

(***************************************************************************)
(* C9: FilterToTraits::next.                                               *)
(***************************************************************************)
\* the positive trait bounds among what the underlying Elaborator yielded
YieldedTraitBounds ==
    LET IsBound(o) == IsPositiveTrait(predicate(o))
    IN SelectSeq(yielded, IsBound)

\* C9: the trait references FilterToTraits has returned are those of the
\* positive trait bounds the underlying Elaborator yielded, in the same order
\* and nothing else; a call that returns a trait reference stopped at the
\* first trait bound it met, and a call returns None only with the
\* underlying Elaborator exhausted.
C9_FilterToTraits ==
    Wrapped =>
        /\ out = [i \in DOMAIN YieldedTraitBounds |->
                     trait_ref(predicate(YieldedTraitBounds[i]))]
        /\ (out # <<>> /\ ret # <<>>) =>
               /\ yielded # <<>>
               /\ ret[1] = out[Len(out)]
               /\ IsPositiveTrait(predicate(yielded[Len(yielded)]))
               /\ ret[1] = trait_ref(predicate(yielded[Len(yielded)]))
        /\ ret = <<>> => stack = <<>>

\* one trait bound and two outlives predicates gave exactly one trait
\* reference
C9_Witness ==
    /\ Wrapped
    /\ Exhausted
    /\ Len(yielded) = 3
    /\ IsPositiveTrait(predicate(yielded[1]))
    /\ predicate(yielded[2]).kind = "TypeOutlives"
    /\ predicate(yielded[3]).kind = "TypeOutlives"
    /\ Len(out) = 1

(***************************************************************************)
(* C10: the children of a type-outlives obligation.                        *)
(***************************************************************************)
\* the predicates of the obligations a call of next pushed: the call pops
\* one obligation and pushes the children on top of what is left
PushedPredicates ==
    [i \in 1..(Len(stack') - (Len(stack) - 1)) |->
        predicate(stack'[Len(stack) - 1 + i])]

\* C10: a call of next that pops T: r, r not bound, pushes one child per
\* component of T not yet visited and nothing else: rho: r for a region rho
\* that is not bound, P: r for a type parameter, a placeholder or an alias
\* that does not escape, nothing for a bound region, an inference variable
\* or an escaping alias.  Vec<U>: 'a gives U: 'a, and
\* for<'b> Foo<'a, 'b>: 'c gives 'a: 'c and nothing for 'b.
C10_OutlivesChildren ==
    [][(/\ ~Wrapped
        /\ stack # <<>>
        /\ predicate(stack[Len(stack)]).kind = "TypeOutlives"
        /\ ~is_bound(predicate(stack[Len(stack)]).r_min))
       => LET top == predicate(stack[Len(stack)])
              new == {c \in OutlivesImplied(top) :
                         anonymize_predicate(c) \notin visited}
          IN /\ Len(stack') >= Len(stack) - 1
             /\ SubSeq(stack', 1, Len(stack) - 1) =
                    SubSeq(stack, 1, Len(stack) - 1)
             /\ Range(PushedPredicates) = new
             /\ Len(PushedPredicates) = Cardinality(new)
             /\ visited' = visited \cup
                    {anonymize_predicate(c) : c \in OutlivesImplied(top)}
             /\ top = TypeOutlives(<<>>, VecU, ReEarlyParam("a")) =>
                    Range(PushedPredicates) \subseteq
                        {TypeOutlives(<<>>, U, ReEarlyParam("a"))}
             /\ top = TypeOutlives(<<"b">>, FooAB, ReEarlyParam("c")) =>
                    Range(PushedPredicates) \subseteq
                        {RegionOutlives(<<"b">>, ReEarlyParam("a"),
                                        ReEarlyParam("c"))}
      ]_vars

\* next has just yielded for<'b> Mix<..>: 'a and pushed its two children, one
\* for the placeholder and one for the alias that does not escape
C10_Witness ==
    /\ ~Wrapped
    /\ yielded # <<>>
    /\ Len(stack) >= 2
    /\ LET top == predicate(yielded[Len(yielded)])
       IN /\ top = TypeOutlives(<<"b">>, Mix, ReEarlyParam("a"))
          /\ predicate(stack[Len(stack) - 1]) =
                 TypeOutlives(<<"b">>, Placeholder("P0"), ReEarlyParam("a"))
          /\ predicate(stack[Len(stack)]) =
                 TypeOutlives(<<"b">>, Alias("Assoc", <<T>>), ReEarlyParam("a"))

(***************************************************************************)
(* C11: exhaustion is permanent.                                           *)
(***************************************************************************)
\* C11: once next has returned None the stack is empty, and every step from
\* there on (a call of next, a change of mode) leaves the stack empty, the
\* visited set and what was yielded as they are, and next returns None again.
C11_ExhaustionPermanent ==
    [][Exhausted =>
          /\ stack = <<>>
          /\ stack' = <<>>
          /\ visited' = visited
          /\ yielded' = yielded
          /\ out' = out
          /\ ret' = <<>>]_vars

\* next has returned None after yielding obligations, and the mode was changed
\* after construction
C11_Witness ==
    /\ Exhausted
    /\ Len(yielded) >= 3
    /\ ~Wrapped
    /\ mode.filter = "OnlySelf"
    /\ \E q \in queries : q.query = "explicit_implied_predicates_of"

(***************************************************************************)
(* C12: the entry points over trait references never look up under All.    *)
(***************************************************************************)
\* C12: through supertraits and transitive_bounds every lookup is the one of
\* OnlySelf, through transitive_bounds_that_define_assoc_item the one of
\* OnlySelfThatDefines(name), the seeds' included; construction itself looks
\* nothing up, and the mode is never All once the entry point has returned.
C12_NeverLooksUpUnderAll ==
    Wrapped =>
        /\ mode.filter # "All"
        /\ yielded = <<>> => queries = {}
        /\ \A q \in queries :
               /\ q.query # "explicit_implied_predicates_of"
               /\ entry \in {"supertraits", "transitive_bounds"} =>
                      q.query = "explicit_super_predicates_of"
               /\ entry = "transitive_bounds_that_define_assoc_item" =>
                      /\ q.query = "explicit_supertraits_containing_assoc_item"
                      /\ q.ident = mode.ident
        /\ \A i \in DOMAIN yielded :
               (i = 1 /\ IsPositiveTrait(predicate(yielded[i]))) =>
                   \E q \in queries : q.def_id = predicate(yielded[i]).def_id

\* supertraits has elaborated its seed and a supertrait of it
C12_Witness ==
    /\ entry = "supertraits"
    /\ Len(yielded) >= 2
    /\ \E q1, q2 \in queries :
           /\ q1.def_id = predicate(seeds[1]).def_id
           /\ q2.def_id # q1.def_id
           /\ q1.query = "explicit_super_predicates_of"

(***************************************************************************)
(* C13: leaf forms are yielded and derive nothing.                         *)
(***************************************************************************)
\* the forms of predicate from which nothing is derived
IsLeaf(p) ==
    \/ p.kind \notin ClauseKinds
    \/ p.kind = "Trait" /\ p.polarity = "Negative"
    \/ p.kind = "TypeOutlives" /\ is_bound(p.r_min)
    \/ p.kind \in {"RegionOutlives", "WellFormed", "Projection",
                   "ConstEvaluatable", "ConstArgHasType"}

\* C13: a call of next that pops an obligation of a leaf form returns it,
\* removes exactly it from the stack, pushes nothing, leaves the visited set
\* and the mode unchanged and looks nothing up.
C13_LeafDerivesNothing ==
    [][(stack # <<>> /\ IsLeaf(predicate(stack[Len(stack)]))) =>
          /\ ret' = <<stack[Len(stack)]>>
          /\ yielded' = Append(yielded, stack[Len(stack)])
          /\ stack' = SubSeq(stack, 1, Len(stack) - 1)
          /\ visited' = visited
          /\ mode' = mode
          /\ queries' = queries]_vars

\* two leaf seeds of different forms were yielded, the stack is empty
C13_Witness ==
    /\ Exhausted
    /\ Len(yielded) = 2
    /\ predicate(yielded[1]).kind = "Projection"
    /\ predicate(yielded[2]).kind = "Trait"
    /\ predicate(yielded[2]).polarity = "Negative"
    /\ tcx[predicate(yielded[2]).def_id] # <<>>

(***************************************************************************)
(* C14: one elaboration per call of next.                                  *)
(***************************************************************************)
\* the keys of the seeds and of the immediate implications of what was yielded
SeedsAndImpliedByYielded ==
    Keys(seeds) \cup
    UNION {ImpliedKeys(mode, predicate(yielded[i])) : i \in DOMAIN yielded}

\* C14: a call of next on a non-empty stack returns the top of the stack and
\* adds to the visited set the keys of the immediate implications of that one
\* obligation and nothing else; so after k such calls the visited set is the
\* keys of the seeds and of the implications of the k yielded obligations,
\* and nothing was computed for an obligation still on the stack.
C14_OneElaborationPerCall ==
    [][(~Wrapped /\ stack # <<>>) =>
          /\ visited = SeedsAndImpliedByYielded
          /\ ret' = <<stack[Len(stack)]>>
          /\ yielded' = Append(yielded, stack[Len(stack)])
          /\ Len(stack') >= Len(stack) - 1
          /\ SubSeq(stack', 1, Len(stack) - 1) =
                 SubSeq(stack, 1, Len(stack) - 1)
          /\ visited' = visited \cup
                 ImpliedKeys(mode, predicate(stack[Len(stack)]))
          /\ queries' = queries \cup queries_of(this, stack[Len(stack)])
          /\ visited' = SeedsAndImpliedByYielded']_vars

\* after two calls an obligation on the stack has an implication that is not
\* in the visited set yet
C14_Witness ==
    /\ ~Wrapped
    /\ Len(yielded) = 2
    /\ visited = SeedsAndImpliedByYielded
    /\ \E i \in DOMAIN stack :
           ImpliedKeys(mode, predicate(stack[i])) \ visited # {}

(***************************************************************************)
(* C15: the causal chain of a full obligation.                             *)
(***************************************************************************)
\* the list of a trait the mode selects, in declared order
SelectedList(m, def_id) ==
    LET Selected(en) == ModeSelects(m, en)
    IN SelectSeq(tcx[def_id], Selected)

\* the predicates derived from those of P by outlives decomposition alone
RECURSIVE OutlivesClosure(_)
OutlivesClosure(P) ==
    LET P2 == P \cup UNION {OutlivesImplied(p) :
                               p \in {x \in P : /\ x.kind = "TypeOutlives"
                                                /\ ~is_bound(x.r_min)}}
    IN IF P2 = P THEN P ELSE OutlivesClosure(P2)

\* what a link of a causal chain says was derived
LinkDerives(link) ==
    instantiate_supertrait(
        SelectedList(mode, link.impl_or_alias_def_id)
            [link.impl_def_predicate_index + 1].clause,
        trait_ref(link.parent_trait_pred))

\* a link names a positive trait bound and an entry of its selected list
LinkWellFormed(link) ==
    /\ IsPositiveTrait(link.parent_trait_pred)
    /\ link.impl_or_alias_def_id = link.parent_trait_pred.def_id
    /\ link.impl_def_predicate_index + 1 \in
           DOMAIN SelectedList(mode, link.impl_or_alias_def_id)
    /\ link.span = SelectedList(mode, link.impl_or_alias_def_id)
                       [link.impl_def_predicate_index + 1].span

\* the chain of o is one link per trait-bound step of a derivation path that
\* starts at the seed of o and ends, through outlives steps only, at o
ChainIsDerivationPath(o) ==
    LET code == o.cause.code
        n == Len(code)
    IN /\ o.cause.span \in DOMAIN seeds
       /\ \A j \in 1..n : LinkWellFormed(code[j])
       /\ n = 0 => o.predicate \in
                       OutlivesClosure({seeds[o.cause.span].predicate})
       /\ n > 0 =>
              /\ code[1].parent_trait_pred = seeds[o.cause.span].predicate
              /\ \A j \in 1..(n - 1) :
                     code[j + 1].parent_trait_pred = LinkDerives(code[j])
              /\ o.predicate \in OutlivesClosure({LinkDerives(code[n])})

\* the obligations a call of next pushed
PushedObligations ==
    [i \in 1..(Len(stack') - (Len(stack) - 1)) |-> stack'[Len(stack) - 1 + i]]

\* C15: for full obligations, a child pushed for a positive trait bound has
\* the cause of its parent with one more link, which records the parent's
\* trait bound and the position, counted from 0, of the implication in the
\* list the mode selects (entries dropped as already visited are counted);
\* a child pushed by outlives decomposition has the cause of its parent;
\* so the chain of every yielded obligation has one link per trait-bound
\* step of its derivation from its seed.
C15_CausalChain ==
    [][(repr = "Obligation" /\ stack # <<>>) =>
          LET top == stack[Len(stack)]
              n == Len(top.cause.code)
          IN /\ IsPositiveTrait(top.predicate) =>
                    \A i \in DOMAIN PushedObligations :
                        LET c == PushedObligations[i]
                            link == c.cause.code[n + 1]
                            list == SelectedList(mode, top.predicate.def_id)
                        IN /\ c.cause.span = top.cause.span
                           /\ Len(c.cause.code) = n + 1
                           /\ SubSeq(c.cause.code, 1, n) = top.cause.code
                           /\ link.parent_trait_pred = top.predicate
                           /\ LinkWellFormed(link)
                           /\ c.predicate = LinkDerives(link)
                           /\ \A j \in 1..link.impl_def_predicate_index :
                                  anonymize_predicate(
                                      instantiate_supertrait(
                                          list[j].clause,
                                          trait_ref(top.predicate))) # key(c)
             /\ top.predicate.kind = "TypeOutlives" =>
                    \A i \in DOMAIN PushedObligations :
                        PushedObligations[i].cause = top.cause
             /\ \A i \in DOMAIN yielded' : ChainIsDerivationPath(yielded'[i])
      ]_vars

\* yielded: an obligation two trait-bound steps from its seed, an obligation
\* derived by outlives decomposition from a derived bound, and an obligation
\* recorded at index 1 whose sibling at index 0 was dropped as visited
C15_Witness ==
    /\ repr = "Obligation"
    /\ Exhausted
    /\ \E i \in DOMAIN yielded : Len(yielded[i].cause.code) = 2
    /\ \E i, j \in DOMAIN yielded :
           /\ i < j
           /\ yielded[i].predicate.kind = "TypeOutlives"
           /\ yielded[j].predicate.kind = "TypeOutlives"
           /\ yielded[j].predicate \in OutlivesImplied(yielded[i].predicate)
           /\ Len(yielded[i].cause.code) >= 1
           /\ yielded[j].cause = yielded[i].cause
    /\ \E i \in DOMAIN yielded :
           LET code == yielded[i].cause.code
           IN /\ code # <<>>
              /\ code[Len(code)].impl_def_predicate_index = 1
              /\ \A k \in DOMAIN yielded :
                     yielded[k].cause.code # <<>> =>
                         yielded[k].cause.code #
                             [code EXCEPT ![Len(code)].impl_def_predicate_index = 0,
                                          ![Len(code)].span = 
                                              SelectedList(mode, code[Len(code)].impl_or_alias_def_id)[1].span]

(***************************************************************************)
(* C16: the payload a derived obligation inherits.                         *)
(***************************************************************************)
\* the seed an obligation descends from: a full obligation carries the span
\* of its seed's cause, a (predicate, span) pair the span of its seed
SeedOf(o) ==
    IF repr = "Obligation" THEN seeds[o.cause.span] ELSE seeds[o.span]

\* the spans at which the declarations assert their implications
DeclaredSpans == UNION {{tcx[t][j].span : j \in DOMAIN tcx[t]} : t \in Traits}

InheritsFromSeed(o) ==
    /\ repr = "Obligation" =>
           /\ o.cause.span \in DOMAIN seeds
           /\ o.param_env = SeedOf(o).param_env
           /\ o # SeedOf(o) => o.recursion_depth = 0
    /\ repr = "PredicateSpan" =>
           /\ o.span \in DOMAIN seeds
           /\ o.span \notin DeclaredSpans
    /\ key(o) \in Closure(mode, {key(SeedOf(o))})

\* C16: every obligation a call of next pushes has the param_env of the
\* popped obligation and recursion_depth 0 (full obligations), the span of
\* the popped obligation (predicate, span); so every obligation yielded has
\* the param_env, respectively the span, of the seed it descends from, never
\* the span of a declaration.
C16_PayloadInherited ==
    [][stack # <<>> =>
          LET top == stack[Len(stack)]
          IN /\ \A i \in DOMAIN PushedObligations :
                    LET c == PushedObligations[i]
                    IN /\ repr = "Obligation" =>
                              /\ c.param_env = top.param_env
                              /\ c.recursion_depth = 0
                              /\ c.cause.span = top.cause.span
                       /\ repr = "PredicateSpan" => c.span = top.span
             /\ \A i \in DOMAIN yielded' : InheritsFromSeed(yielded'[i])
      ]_vars

\* full obligations: the second seed, of depth 2, has a child by a trait
\* bound and a grandchild by outlives decomposition among the yielded
C16_Witness ==
    /\ repr = "Obligation"
    /\ Len(seeds) = 2
    /\ key(seeds[1]) # key(seeds[2])
    /\ seeds[2].recursion_depth = 2
    /\ \E i, j \in DOMAIN yielded :
           /\ yielded[i] # seeds[2]
           /\ yielded[i].param_env = seeds[2].param_env
           /\ yielded[i].predicate.kind = "TypeOutlives"
           /\ yielded[i].cause.code # <<>>
           /\ yielded[j].predicate \in OutlivesImplied(yielded[i].predicate)
           /\ yielded[j].cause = yielded[i].cause
           /\ yielded[j].recursion_depth = 0

\* (predicate, span) pairs: an obligation derived through a declaration keeps
\* the span of the second seed
SpanOfSeedReached ==
    /\ repr = "PredicateSpan"
    /\ \E i \in DOMAIN yielded :
           /\ yielded[i].span = 2
           /\ key(yielded[i]) # key(seeds[2])
           /\ key(yielded[i]) \in ImpliedKeys(mode, seeds[2].predicate)
           /\ IsPositiveTrait(seeds[2].predicate)

(***************************************************************************)
(* C17: a change of mode changes the mode only.                            *)
(***************************************************************************)
\* C17: a step that changes the mode leaves the stack, the visited set and
\* what was yielded as they are; a call of next derives under the mode of
\* the moment it is called, whatever the mode was before; and nothing that
\* was yielded is yielded again.
C17_ModeChangeOnlyMode ==
    [][/\ mode' # mode =>
              /\ stack' = stack
              /\ visited' = visited
              /\ yielded' = yielded
              /\ ret' = ret
              /\ queries' = queries
       /\ (~Wrapped /\ yielded' # yielded) =>
              /\ mode' = mode
              /\ visited' = visited \cup
                     ImpliedKeys(mode, predicate(stack[Len(stack)]))
              /\ visited \subseteq visited'
       /\ \A i, j \in DOMAIN yielded' :
              i # j => key(yielded'[i]) # key(yielded'[j])
      ]_vars

\* the mode was changed from All to OnlySelf after obligations were
\* consumed: lookups of both kinds were made, and an obligation discovered
\* under All was yielded after the change
C17_Witness ==
    /\ ~Wrapped
    /\ mode.filter = "OnlySelf"
    /\ Len(yielded) >= 3
    /\ {q.query : q \in queries} =
           {"explicit_implied_predicates_of", "explicit_super_predicates_of"}
    /\ \E i \in DOMAIN yielded :
           /\ i > 1
           /\ key(yielded[i]) \in ImpliedKeys(Filter_All, predicate(yielded[1]))
           /\ key(yielded[i]) \notin
                  ImpliedKeys(Filter_OnlySelf, predicate(yielded[1]))

(***************************************************************************)
(* C18: the visited set only grows.                                        *)
(***************************************************************************)
\* C18: no step, a call of next or a change of mode, takes a key out of the
\* visited set; the keys of the seeds and of every obligation yielded so far
\* are in it.
C18_VisitedOnlyGrows ==
    [][/\ visited \subseteq visited'
       /\ Keys(seeds) \subseteq visited'
       /\ Keys(yielded') \subseteq visited']_vars

\* obligations were popped and yielded, the mode was changed, and the stack
\* holds none of the yielded keys, which are all still in the visited set
C18_Witness ==
    /\ ~Wrapped
    /\ Len(yielded) >= 2
    /\ stack # <<>>
    /\ Keys(yielded) \cap Keys(stack) = {}
    /\ Keys(yielded) \subseteq visited
    /\ mode.filter = "OnlySelfThatDefines"
    /\ \E q \in queries : q.query = "explicit_implied_predicates_of"

(***************************************************************************)
(* C19: the stack and the visited set.                                     *)
(***************************************************************************)
\* C19: the keys on the stack are in the visited set, are pairwise distinct
\* and are not keys of obligations yielded; the visited set is the keys on
\* the stack together with the keys yielded.
C19_StackAndVisited ==
    /\ Keys(stack) \subseteq visited
    /\ \A i, j \in DOMAIN stack : i # j => key(stack[i]) # key(stack[j])
    /\ Keys(stack) \cap Keys(yielded) = {}
    /\ visited = Keys(stack) \cup Keys(yielded)

\* a state in the middle of a run: obligations yielded, derived obligations
\* and an untouched seed pending
C19_Witness ==
    /\ Len(yielded) >= 2
    /\ Len(stack) >= 3
    /\ Len(seeds) = 2
    /\ stack[1] = seeds[1]
    /\ Cardinality(visited) = Len(stack) + Len(yielded)

(***************************************************************************)
(* C20: the lower bound of size_hint.                                      *)
(***************************************************************************)
\* the number of obligations next yields from e on before it returns None
RECURSIVE RemainingYields(_)
RemainingYields(e) ==
    LET n == Elaborator_next(tcx, repr, e)
    IN IF n.ret = <<>> THEN 0 ELSE 1 + RemainingYields(n.e)

\* C20: in every state the lower bound of size_hint, the length of the
\* stack, is at most the number of obligations next still yields before it
\* returns None; after None it is 0.
C20_SizeHintSound ==
    /\ Elaborator_size_hint(this) <= RemainingYields(this)
    /\ Exhausted => Elaborator_size_hint(this) = 0

\* a state in which obligations are pending and more will be yielded than
\* the bound says
C20_Witness ==
    /\ yielded # <<>>
    /\ Elaborator_size_hint(this) >= 2
    /\ RemainingYields(this) > Elaborator_size_hint(this)

====
